---- MODULE Spec2Model ----
(***************************************************************************)
(* PlexClockifyTracker: the Clockify API client (clockify.py) and the      *)
(* process-wide configuration store (config.py).                           *)
(*                                                                         *)
(* Three specifications share the variables:                               *)
(*   SpecConfig  the configuration store and the client's constructor,     *)
(*               from the state the class body of Config sets up;          *)
(*   Spec        one constructed client used strictly sequentially, one    *)
(*               step per statement that issues an HTTP call or transfers  *)
(*               control between the client's methods;                     *)
(*   SpecRace    two threads on one client, each calling one operation on  *)
(*               the timer, interleaved at those same steps.               *)
(* Python values are records tagged with their Python type, so that None,  *)
(* "", "false" and False stay different values.                            *)
(***************************************************************************)
EXTENDS Integers, Sequences, FiniteSets, TLC

VARIABLES
    conf,       \* Config.__conf: the stored settings, key -> value
    cfgcall,    \* the last call of Config.set or Clockify(): what it did
    client,     \* the Clockify instance (its attributes), or NoClient
    entries,    \* remote: the user's time entries, oldest first
    stack,      \* per thread: the call stack of client methods, top first
    retval,     \* per thread: the value the last returning method returned
    log,        \* per thread: the HTTP calls of the operation in progress
    outcome,    \* per thread: how the last operation ended
    call,       \* per thread: the operation invoked, with the state it saw
    gwLog,      \* history: every invocation of get_workspace() on the client
    nOps        \* number of operations invoked so far

vars == <<conf, cfgcall, client, entries, stack, retval, log, outcome, call,
          gwLog, nOps>>

clientVars == <<client, entries, stack, retval, log, outcome, call, gwLog,
                nOps>>

----------------------------------------------------------------------------
(* Bounds                                                                  *)

MaxOps == 3          \* operations invoked on the client in one behaviour
MaxProjects == 2     \* length of the project list the remote returns

----------------------------------------------------------------------------
(* Python values                                                           *)

PyNone == [type |-> "NoneType"]
PyStr(s) == [type |-> "str", val |-> s]
PyBool(b) == [type |-> "bool", val |-> IF b THEN "True" ELSE "False"]
PyList(xs) == [type |-> "list", val |-> xs]

\* bool(v): None, "", [] and False are falsy; every dict of the model has keys
Truthy(v) ==
    CASE v.type = "NoneType" -> FALSE
      [] v.type = "str" -> v.val # ""
      [] v.type = "list" -> v.val # <<>>
      [] v.type = "bool" -> v.val = "True"
      [] OTHER -> TRUE

----------------------------------------------------------------------------
(* config.py                                                               *)

DefaultMapping ==
    PyList(<<[type |-> "dict", libraries |-> <<"TV Shows", "Movies">>,
              project |-> "Watching TV"]>>)

\* Config.__conf as the class body leaves it
InitialConf ==
    [k \in {"clockify_api_key", "plex_username", "mapping"} |->
        IF k = "mapping" THEN DefaultMapping ELSE PyStr("")]

\* Config.__setters: a live view of the keys of Config.__conf
Setters(c) == DOMAIN c

ConfigAcceptsAnyName(c, name) == TRUE

\* Config.set, the test `name in Config.__setters`
ConfigAccepts(c, name) == name \in Setters(c)

\* Config.__conf[name] = value: a dict assignment (it would add a missing key)
DictAssign(c, name, value) ==
    [k \in DOMAIN c \cup {name} |-> IF k = name THEN value ELSE c[k]]

\* Config.get(name)
ConfigGet(c, name) == c[name]

NoCall == [fn |-> "none", status |-> "none", error |-> "", name |-> "",
           value |-> PyNone, before |-> InitialConf]

\* the keys and values the callers of Config.set pass
SetNames == {"clockify_api_key", "plex_username", "mapping", "clockify_key"}
SetValues == {PyNone, PyStr(""), PyStr("key-1"), DefaultMapping}

NoClient == [type |-> "NoClient"]

\* Config.set(name, value)
ConfigSet(name, value) ==
    /\ IF ConfigAccepts(conf, name)
          THEN /\ conf' = DictAssign(conf, name, value)
               /\ cfgcall' = [fn |-> "Config.set", status |-> "returned",
                              error |-> "", name |-> name, value |-> value,
                              before |-> conf]
          ELSE /\ conf' = conf
               /\ cfgcall' = [fn |-> "Config.set", status |-> "raised",
                              error |-> "NameError", name |-> name,
                              value |-> value, before |-> conf]
    /\ UNCHANGED clientVars

ApiKeyMissingOnlyNone(key) == key = PyNone

\* Clockify.__init__, the test `not Config.get("clockify_api_key")`
ApiKeyMissing(key) == ~Truthy(key)

\* the instance Clockify.__init__ leaves when it returns
NewClient(c) ==
    [type |-> "Clockify",
     _workspace |-> PyNone,
     _api_key |-> ConfigGet(c, "clockify_api_key"),
     _headers |-> [content_type |-> "application/json",
                   X_Api_Key |-> ConfigGet(c, "clockify_api_key")]]

\* Clockify(): the constructor
ClockifyInit ==
    /\ client = NoClient
    /\ IF ApiKeyMissing(ConfigGet(conf, "clockify_api_key"))
          THEN /\ client' = NoClient
               /\ cfgcall' = [fn |-> "Clockify", status |-> "raised",
                              error |-> "ValueError", name |-> "",
                              value |-> PyNone, before |-> conf]
          ELSE /\ client' = NewClient(conf)
               /\ cfgcall' = [fn |-> "Clockify", status |-> "returned",
                              error |-> "", name |-> "", value |-> PyNone,
                              before |-> conf]
    /\ UNCHANGED <<conf, entries, stack, retval, log, outcome, call, gwLog,
                   nOps>>

\* configure, line 25: the value of mapping when the caller passes none
ConfigureDefault == PyNone

\* the arguments the callers of configure pass
ConfigureValues == {PyStr(""), PyStr("key-1")}
ConfigureMappings ==
    {PyNone, DefaultMapping,
     PyList(<<[type |-> "dict", libraries |-> <<"Music">>,
               project |-> "Listening"]>>)}

\* configure(clockify_api_key, plex_username[, mapping]): three Config.set
\* calls; given tells whether the caller passed mapping
configure(clockify_api_key, plex_username, mapping, given) ==
    LET m == IF given THEN mapping ELSE ConfigureDefault
        c1 == DictAssign(conf, "clockify_api_key", clockify_api_key)
        c2 == DictAssign(c1, "plex_username", plex_username)
        c3 == DictAssign(c2, "mapping", m)
        done(c, status, error) ==
            /\ conf' = c
            /\ cfgcall' = [fn |-> "configure", status |-> status,
                           error |-> error, name |-> "", value |-> m,
                           before |-> conf, given |-> given]
    IN  /\ IF ~ConfigAccepts(conf, "clockify_api_key")
              THEN done(conf, "raised", "NameError")
              ELSE IF ~ConfigAccepts(c1, "plex_username")
              THEN done(c1, "raised", "NameError")
              ELSE IF ~ConfigAccepts(c2, "mapping")
              THEN done(c2, "raised", "NameError")
              ELSE done(c3, "returned", "")
        /\ UNCHANGED clientVars

----------------------------------------------------------------------------
(* The remote service, as the client's requests see it                     *)

Threads == {"t1", "t2"}
SeqThreads == {"t1"}

Statuses == {200, 404, 500}

\* datetime.now(timezone.utc).strftime("%Y-%m-%dT%H:%M:%SZ")
Now == PyStr("2026-01-01T00:00:00Z")

Workspace(id) == [type |-> "dict", id |-> id]
\* what GET /workspaces may answer: the account's workspaces, never none
WorkspaceLists ==
    {<<Workspace("w1")>>, <<Workspace("w1"), Workspace("w2")>>,
     <<Workspace("w2"), Workspace("w1")>>}

User == [type |-> "dict", id |-> "u1"]

Project(id, name) == [type |-> "dict", id |-> id, name |-> name]
Projects ==
    {Project("p1", "Watching TV"), Project("p2", "Watching TV"),
     Project("p3", "Reading")}
RECURSIVE SeqsUpTo(_, _)
SeqsUpTo(S, n) ==
    IF n = 0 THEN {<<>>}
    ELSE LET shorter == SeqsUpTo(S, n - 1)
         IN  shorter \cup {Append(q, x) : q \in shorter, x \in S}
\* what GET /workspaces/{wid}/projects may answer
ProjectLists == SeqsUpTo(Projects, MaxProjects)

Entry(id, end, description, projectId) ==
    [type |-> "dict", id |-> id,
     timeInterval |-> [start |-> Now, end |-> end],
     description |-> description, projectId |-> projectId]

Running(e) == e.timeInterval.end = PyNone
RunningIds(es) == {i \in 1..Len(es) : Running(es[i])}

\* GET .../time-entries?hydrated=true&page-size=1: the most recent entry
RemoteLatest(es) == IF es = <<>> THEN <<>> ELSE <<es[Len(es)]>>

\* PATCH .../time-entries {end}: ends the entry in progress
RemoteStop(es, body) ==
    IF RunningIds(es) = {} THEN es
    ELSE LET i == CHOOSE j \in RunningIds(es) : \A k \in RunningIds(es) : k <= j
         IN  [es EXCEPT ![i].timeInterval.end = body.end]
\* the entry that PATCH answers with
RemoteStopped(es, body) ==
    LET i == CHOOSE j \in RunningIds(es) : \A k \in RunningIds(es) : k <= j
    IN  [es[i] EXCEPT !.timeInterval.end = body.end]
\* a PATCH with no entry in progress is refused
PatchStatuses(es) == IF RunningIds(es) = {} THEN Statuses \ {200} ELSE Statuses

\* POST .../time-entries {start, description, projectId, billable}
RemoteCreated(es, body) ==
    [type |-> "dict", id |-> Len(es) + 1,
     timeInterval |-> [start |-> body.start, end |-> PyNone],
     description |-> body.description, projectId |-> body.projectId]
RemoteCreate(es, body) == Append(es, RemoteCreated(es, body))

\* the time entries the user may have before the client is first used: at
\* most one in progress, and that one the most recent
InitialEntries ==
    {<<>>,
     <<Entry(1, Now, "Watching A", "proj123")>>,
     <<Entry(1, PyNone, "Watching A", "proj123")>>,
     <<Entry(1, Now, "Watching A", "proj123"),
       Entry(2, PyNone, "Watching B", "proj456")>>}

----------------------------------------------------------------------------
(* clockify.py: control                                                    *)

EmptyBody == [type |-> "dict"]

Frame(fn, pc) ==
    [fn |-> fn, pc |-> pc, workspace_id |-> "", user_id |-> "", timer |-> PyNone]

EntryPc(fn) ==
    CASE fn = "get_workspace" -> "L76"
      [] fn = "get_projects" -> "L91"
      [] fn = "get_running_timer" -> "L111"
      [] fn = "stop_timer" -> "L140"
      [] fn = "start_timer" -> "L169"

Idle(t) == stack[t] = <<>>
Top(t) == Head(stack[t])
At(t, fn, pc) == ~Idle(t) /\ Top(t).fn = fn /\ Top(t).pc = pc

NoOutcome == [status |-> "none", value |-> PyNone, error |-> "", status_code |-> 0]

\* an exception leaves every frame: no method of the client catches any
Raise(t, error, status_code) ==
    /\ stack' = [stack EXCEPT ![t] = <<>>]
    /\ outcome' = [outcome EXCEPT ![t] =
                      [status |-> "raised", value |-> PyNone, error |-> error,
                       status_code |-> status_code]]
    /\ retval' = retval

\* return v: to the calling method, or to the caller of the operation
Return(t, v) ==
    /\ stack' = [stack EXCEPT ![t] = Tail(@)]
    /\ retval' = [retval EXCEPT ![t] = v]
    /\ outcome' = IF Len(stack[t]) = 1
                     THEN [outcome EXCEPT ![t] =
                              [status |-> "returned", value |-> v, error |-> "",
                               status_code |-> 0]]
                     ELSE outcome

\* go on in the same method, at pc, with its locals as in frame
Goto(t, frame, pc) ==
    /\ stack' = [stack EXCEPT ![t] = <<[frame EXCEPT !.pc = pc]>> \o Tail(@)]
    /\ UNCHANGED <<retval, outcome>>

\* call method fn, to go on at pc when it returns
Push(t, fn, frame, pc) ==
    /\ stack' = [stack EXCEPT ![t] =
                    <<Frame(fn, EntryPc(fn)), [frame EXCEPT !.pc = pc]>> \o Tail(@)]
    /\ UNCHANGED <<retval, outcome>>

Http(method, path, wid, uid, status, body) ==
    [method |-> method, path |-> path, wid |-> wid, uid |-> uid,
     status |-> status, body |-> body]

Logged(t, rec) == log' = [log EXCEPT ![t] = Append(@, rec)]

\* a call on the time entries as logged: with the JSON the remote answered
\* (None when it refused), and what the remote held when it answered, the
\* number of entries (at) and those in progress (running)
Answered(rec, json, es) ==
    [method |-> rec.method, path |-> rec.path, wid |-> rec.wid,
     uid |-> rec.uid, status |-> rec.status, body |-> rec.body,
     json |-> json, at |-> Len(es), running |-> RunningIds(es)]

RequestRaisesOnlyServerErrors(status) == status >= 500

\* _request, the test `rtn.status_code < 200 or rtn.status_code >= 300`
RequestRaises(status) == status < 200 \/ status >= 300

----------------------------------------------------------------------------
(* clockify.py: the client's methods                                       *)

\* one invocation of get_workspace: the status of its GET /workspaces (0 when
\* it issued none) and the workspace it returned (None when it raised)
GwCall(http, ret) == [http |-> http, ret |-> ret]

CacheMissAlways(workspace) == TRUE

\* get_workspace, the test `not self._workspace`
CacheMiss(workspace) == ~Truthy(workspace)

\* how the statement that called self.get_workspace() goes on with the
\* workspace ws: get_workspace's own caller gets it, a method keeps its id
WithWorkspace(t, ws, next) ==
    IF next = "return"
       THEN Return(t, ws)
       ELSE Goto(t, [Top(t) EXCEPT !.workspace_id = ws["id"]], next)

\* self.get_workspace(), called at the statement the thread is at, which
\* then goes on at next
GetWorkspace(t, next) ==
    IF CacheMiss(client._workspace)
       THEN \E status \in Statuses, workspaces \in WorkspaceLists :
              /\ Logged(t, Http("GET", "/workspaces", "", "", status, EmptyBody))
              /\ IF RequestRaises(status)
                    THEN /\ Raise(t, "Exception", status)
                         /\ gwLog' = Append(gwLog, GwCall(status, PyNone))
                         /\ client' = client
                    ELSE /\ client' = [client EXCEPT !._workspace = workspaces[1]]
                         /\ gwLog' = Append(gwLog, GwCall(status, workspaces[1]))
                         /\ WithWorkspace(t, workspaces[1], next)
       ELSE /\ gwLog' = Append(gwLog, GwCall(0, client._workspace))
            /\ WithWorkspace(t, client._workspace, next)
            /\ UNCHANGED <<client, log>>

\* user_id = self._request("/user").json()["id"], then on at next
GetUserId(t, next) ==
    \E status \in Statuses :
       /\ Logged(t, Http("GET", "/user", "", "", status, EmptyBody))
       /\ IF RequestRaises(status)
             THEN Raise(t, "Exception", status)
             ELSE Goto(t, [Top(t) EXCEPT !.user_id = User["id"]], next)

\* Clockify.get_workspace, called by the user of the client
get_workspace(t) ==
    /\ At(t, "get_workspace", "L76")
    /\ GetWorkspace(t, "return")
    /\ UNCHANGED <<conf, cfgcall, entries, call, nOps>>

SelectLastMatch(projects, name) ==
    IF name # ""
       THEN LET project == SelectSeq(projects, LAMBDA x : x.name = name)
            IN  IF project # <<>> THEN project[Len(project)] ELSE PyList(<<>>)
       ELSE PyList(projects)

\* get_projects, lines 98-102: the project named name, [] or the whole list
SelectProject(projects, name) ==
    IF name # ""
       THEN LET project == SelectSeq(projects, LAMBDA x : x.name = name)
            IN  IF project # <<>> THEN project[1] ELSE PyList(<<>>)
       ELSE PyList(projects)

\* get_projects, line 91
get_projects_L91(t) ==
    /\ At(t, "get_projects", "L91")
    /\ GetWorkspace(t, "L96")
    /\ UNCHANGED <<conf, cfgcall, entries, call, nOps>>

\* get_projects, lines 96-102
get_projects_L96(t) ==
    /\ At(t, "get_projects", "L96")
    /\ \E status \in Statuses, projects \in ProjectLists :
          /\ Logged(t, Http("GET", "/workspaces/{wid}/projects",
                            Top(t).workspace_id, "", status, EmptyBody))
          /\ IF RequestRaises(status)
                THEN /\ Raise(t, "Exception", status)
                     /\ call' = call
                ELSE /\ Return(t, SelectProject(projects, call[t].name))
                     /\ call' = [call EXCEPT ![t].fetched = projects]
    /\ UNCHANGED <<conf, cfgcall, client, entries, gwLog, nOps>>

RunningTimerIgnoresEnd(time_entries) ==
    IF time_entries # <<>> THEN time_entries[1] ELSE PyNone

\* get_running_timer, lines 124-131: the entry fetched if its end is null
RunningTimer(time_entries) ==
    IF /\ time_entries # <<>>
       /\ "timeInterval" \in DOMAIN time_entries[1]
       /\ time_entries[1].timeInterval.end = PyNone
       THEN time_entries[1]
       ELSE PyNone

\* get_running_timer, line 111
get_running_timer_L111(t) ==
    /\ At(t, "get_running_timer", "L111")
    /\ GetWorkspace(t, "L112")
    /\ UNCHANGED <<conf, cfgcall, entries, call, nOps>>

\* get_running_timer, line 112
get_running_timer_L112(t) ==
    /\ At(t, "get_running_timer", "L112")
    /\ GetUserId(t, "L121")
    /\ UNCHANGED <<conf, cfgcall, client, entries, call, gwLog, nOps>>

\* get_running_timer, lines 114-131
get_running_timer_L121(t) ==
    /\ At(t, "get_running_timer", "L121")
    /\ \E status \in Statuses :
          /\ Logged(t, Answered(
                Http("GET", "/workspaces/{wid}/user/{uid}/time-entries",
                     Top(t).workspace_id, Top(t).user_id, status, EmptyBody),
                IF RequestRaises(status) THEN PyNone
                   ELSE RunningTimer(RemoteLatest(entries)),
                entries))
          /\ IF RequestRaises(status)
                THEN Raise(t, "Exception", status)
                ELSE Return(t, RunningTimer(RemoteLatest(entries)))
    /\ UNCHANGED <<conf, cfgcall, client, entries, call, gwLog, nOps>>

\* stop_timer, line 140: timer = self.get_running_timer()
stop_timer_L140(t) ==
    /\ At(t, "stop_timer", "L140")
    /\ Push(t, "get_running_timer", Top(t), "L142")
    /\ UNCHANGED <<conf, cfgcall, client, entries, log, call, gwLog, nOps>>

NoTimerNever(timer) == FALSE

\* stop_timer, the test `not timer`
NoTimer(timer) == ~Truthy(timer)

\* stop_timer, lines 142-143
stop_timer_L142(t) ==
    /\ At(t, "stop_timer", "L142")
    /\ IF NoTimer(retval[t])
          THEN Return(t, PyNone)
          ELSE Goto(t, [Top(t) EXCEPT !.timer = retval[t]], "L145")
    /\ UNCHANGED <<conf, cfgcall, client, entries, log, call, gwLog, nOps>>

\* stop_timer, line 145
stop_timer_L145(t) ==
    /\ At(t, "stop_timer", "L145")
    /\ GetWorkspace(t, "L146")
    /\ UNCHANGED <<conf, cfgcall, entries, call, nOps>>

\* stop_timer, line 146
stop_timer_L146(t) ==
    /\ At(t, "stop_timer", "L146")
    /\ GetUserId(t, "L155")
    /\ UNCHANGED <<conf, cfgcall, client, entries, call, gwLog, nOps>>

StopBodyWithoutEnd(now) == [type |-> "dict", end |-> PyNone]

\* stop_timer, line 155: the body of the PATCH
StopBody(now) == [type |-> "dict", end |-> now]

\* stop_timer, lines 148-155
stop_timer_L155(t) ==
    /\ At(t, "stop_timer", "L155")
    /\ \E status \in PatchStatuses(entries) :
          /\ Logged(t, Answered(
                Http("PATCH", "/workspaces/{wid}/user/{uid}/time-entries",
                     Top(t).workspace_id, Top(t).user_id, status, StopBody(Now)),
                IF RequestRaises(status) THEN PyNone
                   ELSE RemoteStopped(entries, StopBody(Now)),
                entries))
          /\ IF RequestRaises(status)
                THEN /\ Raise(t, "Exception", status)
                     /\ entries' = entries
                ELSE /\ entries' = RemoteStop(entries, StopBody(Now))
                     /\ Return(t, RemoteStopped(entries, StopBody(Now)))
    /\ UNCHANGED <<conf, cfgcall, client, call, gwLog, nOps>>

\* start_timer, line 169: running_timer = self.get_running_timer()
start_timer_L169(t) ==
    /\ At(t, "start_timer", "L169")
    /\ Push(t, "get_running_timer", Top(t), "L170")
    /\ UNCHANGED <<conf, cfgcall, client, entries, log, call, gwLog, nOps>>

StopFirstNever(running_timer) == FALSE

\* start_timer, the test `if running_timer`
StopFirst(running_timer) == Truthy(running_timer)

\* start_timer, lines 170-171
start_timer_L170(t) ==
    /\ At(t, "start_timer", "L170")
    /\ IF StopFirst(retval[t])
          THEN Push(t, "stop_timer", [Top(t) EXCEPT !.timer = retval[t]], "L173")
          ELSE Goto(t, [Top(t) EXCEPT !.timer = retval[t]], "L173")
    /\ UNCHANGED <<conf, cfgcall, client, entries, log, call, gwLog, nOps>>

\* start_timer, line 173
start_timer_L173(t) ==
    /\ At(t, "start_timer", "L173")
    /\ GetWorkspace(t, "L174")
    /\ UNCHANGED <<conf, cfgcall, entries, call, nOps>>

\* start_timer, line 174
start_timer_L174(t) ==
    /\ At(t, "start_timer", "L174")
    /\ GetUserId(t, "L190")
    /\ UNCHANGED <<conf, cfgcall, client, entries, call, gwLog, nOps>>

StartBodySwapped(start, description, project_id) ==
    [type |-> "dict", start |-> start, description |-> project_id,
     projectId |-> description, billable |-> PyStr("false")]

\* start_timer, lines 183-188: the body of the POST
StartBody(start, description, project_id) ==
    [type |-> "dict", start |-> start, description |-> description,
     projectId |-> project_id, billable |-> PyStr("false")]

\* start_timer, lines 176-190
start_timer_L190(t) ==
    /\ At(t, "start_timer", "L190")
    /\ \E status \in Statuses :
          LET body == StartBody(Now, call[t].description, call[t].project_id)
          IN  /\ Logged(t, Answered(
                    Http("POST", "/workspaces/{wid}/time-entries",
                         Top(t).workspace_id, "", status, body),
                    IF RequestRaises(status) THEN PyNone
                       ELSE RemoteCreated(entries, body),
                    entries))
              /\ IF RequestRaises(status)
                    THEN /\ Raise(t, "Exception", status)
                         /\ entries' = entries
                    ELSE /\ entries' = RemoteCreate(entries, body)
                         /\ Return(t, RemoteCreated(entries, body))
    /\ UNCHANGED <<conf, cfgcall, client, call, gwLog, nOps>>

----------------------------------------------------------------------------
(* The user of the client                                                  *)

Op(fn, name, description, project_id) ==
    [fn |-> fn, name |-> name, description |-> description,
     project_id |-> project_id]

\* the operations a caller invokes, with the arguments it passes
Ops ==
    {Op("get_workspace", "", "", ""), Op("get_running_timer", "", "", ""),
     Op("stop_timer", "", "", ""),
     Op("start_timer", "", "Watching X", "proj123"),
     Op("start_timer", "", "Watching Y", "proj456")}
    \cup {Op("get_projects", n, "", "") :
            n \in {"", "Watching TV", "watching tv", "Reading"}}

NoOp ==
    [fn |-> "none", name |-> "", description |-> "", project_id |-> "",
     entries0 |-> <<>>, workspace0 |-> PyNone, fetched |-> <<>>]

\* thread t calls operation op of the client; the operation then runs
Invoke(t, op) ==
    /\ client # NoClient
    /\ nOps < MaxOps
    /\ Idle(t)
    /\ stack' = [stack EXCEPT ![t] = <<Frame(op.fn, EntryPc(op.fn))>>]
    /\ log' = [log EXCEPT ![t] = <<>>]
    /\ outcome' = [outcome EXCEPT ![t] =
                      [NoOutcome EXCEPT !.status = "running"]]
    /\ retval' = [retval EXCEPT ![t] = PyNone]
    /\ call' = [call EXCEPT ![t] =
                   [fn |-> op.fn, name |-> op.name,
                    description |-> op.description,
                    project_id |-> op.project_id,
                    entries0 |-> entries, workspace0 |-> client._workspace,
                    fetched |-> <<>>]]
    /\ nOps' = nOps + 1
    /\ UNCHANGED <<conf, cfgcall, client, entries, gwLog>>

\* one step of thread t inside the operation it is running
Step(t) ==
    \/ get_workspace(t)
    \/ get_projects_L91(t)
    \/ get_projects_L96(t)
    \/ get_running_timer_L111(t)
    \/ get_running_timer_L112(t)
    \/ get_running_timer_L121(t)
    \/ stop_timer_L140(t)
    \/ stop_timer_L142(t)
    \/ stop_timer_L145(t)
    \/ stop_timer_L146(t)
    \/ stop_timer_L155(t)
    \/ start_timer_L169(t)
    \/ start_timer_L170(t)
    \/ start_timer_L173(t)
    \/ start_timer_L174(t)
    \/ start_timer_L190(t)

----------------------------------------------------------------------------
(* Specifications                                                          *)

ConfiguredConf ==
    [InitialConf EXCEPT !["clockify_api_key"] = PyStr("key-1"),
                        !["plex_username"] = PyStr("viewer")]

ThreadInit ==
    /\ stack = [t \in Threads |-> <<>>]
    /\ retval = [t \in Threads |-> PyNone]
    /\ log = [t \in Threads |-> <<>>]
    /\ outcome = [t \in Threads |-> NoOutcome]
    /\ call = [t \in Threads |-> NoOp]
    /\ gwLog = <<>>
    /\ nOps = 0

\* a client constructed from a configured store, before its first use
Init ==
    /\ conf = ConfiguredConf
    /\ cfgcall = NoCall
    /\ client = NewClient(conf)
    /\ entries \in InitialEntries
    /\ ThreadInit

\* strictly sequential use: an operation is invoked when none is in progress
Next ==
    \E t \in SeqThreads :
       \/ /\ \A u \in Threads : Idle(u)
          /\ \E op \in Ops : Invoke(t, op)
       \/ Step(t)

Spec == Init /\ [][Next]_vars

\* the configuration store as the class body leaves it, and no client yet
InitConfig ==
    /\ conf = InitialConf
    /\ cfgcall = NoCall
    /\ client = NoClient
    /\ entries = <<>>
    /\ ThreadInit

NextConfig ==
    \/ \E name \in SetNames, value \in SetValues : ConfigSet(name, value)
    \/ \E k \in ConfigureValues, u \in ConfigureValues, given \in BOOLEAN :
          \E m \in IF given THEN ConfigureMappings ELSE {ConfigureDefault} :
             configure(k, u, m, given)
    \/ ClockifyInit

SpecConfig == InitConfig /\ [][NextConfig]_vars

\* the operations on the timer
TimerOps == {op \in Ops : op.fn \in {"stop_timer", "start_timer"}}

\* one step of thread t inside an operation on the timer
StepTimer(t) ==
    \/ get_running_timer_L111(t)
    \/ get_running_timer_L112(t)
    \/ get_running_timer_L121(t)
    \/ stop_timer_L140(t)
    \/ stop_timer_L142(t)
    \/ stop_timer_L145(t)
    \/ stop_timer_L146(t)
    \/ stop_timer_L155(t)
    \/ start_timer_L169(t)
    \/ start_timer_L170(t)
    \/ start_timer_L173(t)
    \/ start_timer_L174(t)
    \/ start_timer_L190(t)

\* two threads on one client, each calling one operation on the timer; the
\* calls interleave at every HTTP call and every transfer of control
NextRace ==
    \E t \in Threads :
       \/ /\ call[t].fn = "none"
          /\ \E op \in TimerOps : Invoke(t, op)
       \/ StepTimer(t)

SpecRace == Init /\ [][NextRace]_vars

----------------------------------------------------------------------------
(* Properties                                                              *)

\* the operation thread t invoked has ended
Done(t) == Idle(t) /\ outcome[t].status \in {"returned", "raised"}
\* every HTTP call of t's operation was answered 2xx
AllSucceeded(t) == \A i \in 1..Len(log[t]) : log[t][i].status \in 200..299
\* the PATCH and POST calls of t's operation, in the order issued
Writes(t) ==
    LET w == SelectSeq(log[t], LAMBDA c : c.method \in {"PATCH", "POST"})
    IN  [i \in 1..Len(w) |-> w[i].method]
\* a timer is running: the most recent entry has no end
TimerRunning(es) == es # <<>> /\ es[Len(es)].timeInterval.end = PyNone

\* C1: used strictly sequentially from a state with at most one running
\* entry, that one the most recent, the user never has more than one running
\* time entry, whatever calls are made and whichever of them fail.
C1_AtMostOneRunning == Cardinality(RunningIds(entries)) <= 1

C1_Witness ==
    \E t \in Threads :
       /\ Done(t) /\ call[t].fn = "start_timer"
       /\ TimerRunning(call[t].entries0)
       /\ outcome[t].status = "returned"
       /\ Len(entries) = 3
       /\ RunningIds(entries) = {3}

\* C2: a start_timer invoked while a timer is running, all of whose HTTP
\* calls succeed, issues exactly one PATCH and exactly one POST, the PATCH
\* first.
C2_StopThenStart ==
    \A t \in Threads :
       (/\ Done(t) /\ call[t].fn = "start_timer"
        /\ TimerRunning(call[t].entries0)
        /\ AllSucceeded(t))
       => Writes(t) = <<"PATCH", "POST">>

C2_Witness ==
    \E t \in Threads :
       /\ Done(t) /\ call[t].fn = "start_timer"
       /\ TimerRunning(call[t].entries0)
       /\ AllSucceeded(t)
       /\ outcome[t].status = "returned"
       /\ Len(log[t]) > 2

\* C3: a stop_timer invoked while no timer is running (no entry, or the most
\* recent entry ended) issues no PATCH and leaves the time entries as they
\* were, and when its HTTP calls succeed it returns None.
C3_StopWithoutTimer ==
    \A t \in Threads :
       (call[t].fn = "stop_timer" /\ ~TimerRunning(call[t].entries0))
       => /\ \A i \in 1..Len(log[t]) : log[t][i].method # "PATCH"
          /\ entries = call[t].entries0
          /\ outcome[t].status = "returned" => outcome[t].value = PyNone
          /\ (Done(t) /\ AllSucceeded(t)) => outcome[t].status = "returned"

C3_Witness ==
    \E t \in Threads :
       /\ Done(t) /\ call[t].fn = "stop_timer"
       /\ call[t].entries0 # <<>> /\ ~TimerRunning(call[t].entries0)
       /\ outcome[t].status = "returned" /\ outcome[t].value = PyNone
       /\ Len(log[t]) >= 2

\* C4: an HTTP call answered 404 or 500 is the last call of its operation,
\* and the operation ends raising the error that carries that status.
C4_ErrorEndsOperation ==
    \A t \in Threads :
       \A i \in 1..Len(log[t]) :
          log[t][i].status \in {404, 500}
          => /\ i = Len(log[t])
             /\ Idle(t)
             /\ outcome[t].status = "raised"
             /\ outcome[t].error = "Exception"
             /\ outcome[t].status_code = log[t][i].status

C4_Witness ==
    \E t \in Threads :
       /\ Done(t) /\ call[t].fn = "start_timer"
       /\ log[t] # <<>>
       /\ log[t][Len(log[t])].method = "PATCH"
       /\ log[t][Len(log[t])].status = 404
       /\ outcome[t].status = "raised" /\ outcome[t].status_code = 404

\* the invocations of get_workspace that issued GET /workspaces, and those
\* that returned
GwFetched == {i \in 1..Len(gwLog) : gwLog[i].http # 0}
GwReturned == {i \in 1..Len(gwLog) : gwLog[i].ret # PyNone}

\* C5 as stated: over any number (>= 1) of invocations of get_workspace,
\* direct or internal, exactly one GET /workspaces is issued and every
\* invocation returns the same cached workspace.
C5_ExactlyOneGet ==
    gwLog # <<>>
    => /\ Cardinality(GwFetched) = 1
       /\ \A i, j \in GwReturned : gwLog[i].ret = gwLog[j].ret

\* C5 as amended: GET /workspaces is issued only while no invocation has
\* returned; once one has, exactly one GET /workspaces has succeeded, none is
\* issued afterwards, and every invocation that returns returns the same
\* workspace, the cached one.
C5_OneSuccessfulGet ==
    /\ \A i \in GwFetched : \A j \in GwReturned : i <= j
    /\ \A i \in GwReturned : gwLog[i].ret = client._workspace
    /\ GwReturned # {}
       => Cardinality({i \in GwFetched : gwLog[i].http \in 200..299}) = 1

C5_Witness ==
    /\ Len(gwLog) >= 4
    /\ gwLog[1].ret = PyNone
    /\ gwLog[2].http = 200 /\ gwLog[2].ret = Workspace("w2")
    /\ gwLog[4].http = 0 /\ gwLog[4].ret = Workspace("w2")

\* C6: get_running_timer returns the most recent time entry when that
\* entry's end is null, and None when it has an end or there is no entry.
C6_RunningTimerIsLatest ==
    \A t \in Threads :
       (Done(t) /\ call[t].fn = "get_running_timer")
       => LET es == call[t].entries0
          IN  /\ outcome[t].status = "returned"
                 => outcome[t].value =
                       IF es # <<>> /\ es[Len(es)].timeInterval.end = PyNone
                          THEN es[Len(es)]
                          ELSE PyNone
              /\ AllSucceeded(t) => outcome[t].status = "returned"

C6_Witness ==
    \E t \in Threads :
       /\ Done(t) /\ call[t].fn = "get_running_timer"
       /\ Len(call[t].entries0) = 2
       /\ outcome[t].status = "returned"
       /\ outcome[t].value = call[t].entries0[2]

\* C7: get_projects(name) with a non-empty name returns the first fetched
\* project whose name equals name, or [] when none does; with no name it
\* returns the whole fetched list.
C7_ProjectByName ==
    \A t \in Threads :
       (Done(t) /\ call[t].fn = "get_projects" /\ outcome[t].status = "returned")
       => LET ps == call[t].fetched
              name == call[t].name
              hits == {i \in 1..Len(ps) : ps[i].name = name}
          IN  outcome[t].value =
                 IF name = "" THEN PyList(ps)
                 ELSE IF hits = {} THEN PyList(<<>>)
                 ELSE ps[CHOOSE i \in hits : \A j \in hits : i <= j]

C7_Witness ==
    \E t \in Threads :
       /\ Done(t) /\ call[t].fn = "get_projects"
       /\ call[t].name = "Watching TV"
       /\ call[t].fetched =
             <<Project("p2", "Watching TV"), Project("p1", "Watching TV")>>
       /\ outcome[t].status = "returned"
       /\ outcome[t].value = Project("p2", "Watching TV")

\* C8: constructing the client while clockify_api_key is None or "" raises
\* (ValueError), leaves no client instance and issues no HTTP call.
C8_NoKeyNoClient ==
    (/\ cfgcall.fn = "Clockify"
     /\ cfgcall.before["clockify_api_key"] \in {PyNone, PyStr("")})
    => /\ cfgcall.status = "raised"
       /\ cfgcall.error = "ValueError"
       /\ client = NoClient
       /\ \A t \in Threads : log[t] = <<>>

C8_Witness ==
    /\ cfgcall.fn = "Clockify"
    /\ cfgcall.before["clockify_api_key"] = PyNone
    /\ cfgcall.status = "raised"
    /\ client = NoClient

\* C9: the body of the POST that start_timer(description, project_id) sends
\* carries that description, that projectId and billable as the boolean
\* false.
C9_PostBody ==
    \A t \in Threads :
       \A i \in 1..Len(log[t]) :
          log[t][i].method = "POST"
          => /\ log[t][i].body.description = call[t].description
             /\ log[t][i].body.projectId = call[t].project_id
             /\ log[t][i].body.billable = PyBool(FALSE)

\* C10: Config.set(name, value) with a name outside clockify_api_key,
\* plex_username and mapping raises (NameError) and changes no stored value;
\* with one of these names it overwrites that name's value and no other.
C10_SetRecognizedOnly ==
    cfgcall.fn = "Config.set"
    => IF cfgcall.name \in {"clockify_api_key", "plex_username", "mapping"}
          THEN /\ cfgcall.status = "returned"
               /\ conf = [cfgcall.before EXCEPT ![cfgcall.name] = cfgcall.value]
          ELSE /\ cfgcall.status = "raised"
               /\ cfgcall.error = "NameError"
               /\ conf = cfgcall.before

C10_Witness ==
    /\ cfgcall.fn = "Config.set"
    /\ cfgcall.name = "clockify_key"
    /\ cfgcall.status = "raised"
    /\ conf # InitialConf
    /\ conf = cfgcall.before

\* C11: configure(apiKey, username) called without a mapping leaves the
\* mapping setting equal to the built-in example mapping, whatever it held.
C11_DefaultMappingKept ==
    (cfgcall.fn = "configure" /\ ~cfgcall.given)
    => conf["mapping"] = DefaultMapping

\* C12: a stop_timer invoked while a timer is running, all of whose HTTP
\* calls succeed, issues exactly one PATCH, carrying an end time, and no
\* POST; afterwards no entry is running, so the most recent entry has an end
\* and a get_running_timer that follows returns None.
C12_StopEndsTimer ==
    \A t \in Threads :
       (/\ Done(t) /\ call[t].fn = "stop_timer"
        /\ TimerRunning(call[t].entries0)
        /\ AllSucceeded(t))
       => /\ Writes(t) = <<"PATCH">>
          /\ log[t][Len(log[t])].method = "PATCH"
          /\ log[t][Len(log[t])].body.end.type = "str"
          /\ log[t][Len(log[t])].body.end.val # ""
          /\ outcome[t].status = "returned"
          /\ RunningIds(entries) = {}
          /\ ~TimerRunning(entries)
          /\ Len(entries) = Len(call[t].entries0)

C12_Witness ==
    \E t \in Threads :
       /\ Done(t) /\ call[t].fn = "stop_timer"
       /\ Len(call[t].entries0) = 2
       /\ TimerRunning(call[t].entries0)
       /\ AllSucceeded(t)
       /\ outcome[t].status = "returned"
       /\ RunningIds(entries) = {}

\* C15: a start_timer invoked while no timer is running, all of whose HTTP
\* calls succeed, issues no PATCH and exactly one POST; afterwards exactly
\* one entry is running, the one it created and returned, which is the most
\* recent entry (what a get_running_timer that follows returns).
C15_StartWithoutTimer ==
    \A t \in Threads :
       (/\ Done(t) /\ call[t].fn = "start_timer"
        /\ ~TimerRunning(call[t].entries0)
        /\ AllSucceeded(t))
       => /\ Writes(t) = <<"POST">>
          /\ outcome[t].status = "returned"
          /\ Len(entries) = Len(call[t].entries0) + 1
          /\ RunningIds(entries) = {Len(entries)}
          /\ entries[Len(entries)] = outcome[t].value
          /\ entries[Len(entries)].description = call[t].description
          /\ entries[Len(entries)].projectId = call[t].project_id
          /\ \A i \in 1..Len(call[t].entries0) : entries[i] = call[t].entries0[i]

C15_Witness ==
    \E t \in Threads :
       /\ Done(t) /\ call[t].fn = "start_timer"
       /\ call[t].entries0 # <<>> /\ ~TimerRunning(call[t].entries0)
       /\ AllSucceeded(t)
       /\ outcome[t].status = "returned"
       /\ RunningIds(entries) = {Len(entries)}

\* C16: when a start_timer invoked while entry E is running has its stop
\* PATCH succeed and a later call of it (GET /user or the POST) fail, it ends
\* raising, with E ended, no entry running and no entry created.
C16_StopNotRolledBack ==
    \A t \in Threads :
       (/\ Done(t) /\ call[t].fn = "start_timer"
        /\ TimerRunning(call[t].entries0)
        /\ outcome[t].status = "raised"
        /\ \E i \in 1..Len(log[t]) :
              log[t][i].method = "PATCH" /\ log[t][i].status \in 200..299)
       => LET es == call[t].entries0
              n == Len(es)
              last == log[t][Len(log[t])]
          IN  /\ Len(entries) = n
              /\ \A i \in 1..(n - 1) : entries[i] = es[i]
              /\ entries[n].id = es[n].id
              /\ entries[n].timeInterval.end # PyNone
              /\ RunningIds(entries) = {}
              /\ last.path = "/user" \/ last.method = "POST"
              /\ outcome[t].status_code = last.status

C16_Witness ==
    \E t \in Threads :
       /\ Done(t) /\ call[t].fn = "start_timer"
       /\ TimerRunning(call[t].entries0)
       /\ outcome[t].status = "raised"
       /\ Writes(t) = <<"PATCH", "POST">>
       /\ log[t][Len(log[t])].status = 500
       /\ RunningIds(entries) = {}
       /\ Len(entries) = Len(call[t].entries0)

\* the cache in every state: a workspace in it came from a GET /workspaces
\* that succeeded, and an invocation that failed left it empty, so that the
\* invocation after it issued the GET again
CacheState ==
    /\ client._workspace # PyNone
       => \E i \in 1..Len(gwLog) :
             /\ gwLog[i].http \in 200..299
             /\ gwLog[i].ret = client._workspace
    /\ \A i \in 1..Len(gwLog) :
          gwLog[i].ret = PyNone
          => IF i = Len(gwLog) THEN client._workspace = PyNone
                               ELSE gwLog[i + 1].http # 0

\* the cache in every step: a workspace in it stays, and it changes only in
\* an invocation of get_workspace whose GET /workspaces succeeded
CacheStep ==
    /\ client._workspace # PyNone => client'._workspace = client._workspace
    /\ client'._workspace # client._workspace
       => /\ Len(gwLog') = Len(gwLog) + 1
          /\ gwLog'[Len(gwLog')].http \in 200..299
          /\ gwLog'[Len(gwLog')].ret = client'._workspace

\* C17: the workspace cache is written only by a GET /workspaces that
\* succeeded; a get_workspace that fails leaves it empty, so the next
\* invocation issues the GET again; once it holds a workspace no later
\* operation changes or clears it.
C17_CacheWrittenOnce == [](CacheState) /\ [][CacheStep]_vars

C17_Witness ==
    /\ Len(gwLog) >= 3
    /\ gwLog[1].http = 500 /\ gwLog[1].ret = PyNone
    /\ gwLog[2].http = 200 /\ gwLog[2].ret = Workspace("w1")
    /\ gwLog[3].http = 0
    /\ client._workspace = Workspace("w1")
    /\ \E t \in Threads : Done(t) /\ call[t].fn = "get_projects"

\* the calls of t's operation that looked for the running timer, and the
\* last of them before its i-th call
IsLook(c) ==
    c.method = "GET" /\ c.path = "/workspaces/{wid}/user/{uid}/time-entries"
LastLook(t, i) ==
    CHOOSE j \in 1..(i - 1) :
       /\ IsLook(log[t][j])
       /\ \A k \in (j + 1)..(i - 1) : ~IsLook(log[t][k])
\* the calls of t's operation that changed the time entries
Wrote(t, method) ==
    {i \in 1..Len(log[t]) :
        log[t][i].method = method /\ log[t][i].status \in 200..299}

\* C13: two start_timer calls interleaved at single HTTP calls can leave two
\* entries running. Every POST issued while an entry is in progress comes
\* from a call that last looked before that entry existed; and when two
\* entries run with no PATCH issued, both calls are start_timer calls that
\* saw no running timer before either POST.
C13_RaceWindow ==
    /\ \A t \in Threads :
          \A i \in Wrote(t, "POST") :
             \A e \in log[t][i].running : e > log[t][LastLook(t, i)].at
    /\ Cardinality(RunningIds(entries)) <= 2
    /\ (/\ Cardinality(RunningIds(entries)) = 2
        /\ \A t \in Threads : Wrote(t, "PATCH") = {})
       => \A t \in Threads :
             /\ call[t].fn = "start_timer"
             /\ Wrote(t, "POST") # {}
             /\ \A j \in 1..Len(log[t]) :
                   IsLook(log[t][j])
                   => /\ log[t][j].json = PyNone
                      /\ \A u \in Threads :
                            \A k \in Wrote(u, "POST") :
                               log[t][j].at < log[u][k].json.id

C13_Witness ==
    /\ \A t \in Threads :
          /\ Done(t) /\ call[t].fn = "start_timer"
          /\ outcome[t].status = "returned"
          /\ Writes(t) = <<"POST">>
          /\ \A j \in 1..Len(log[t]) :
                IsLook(log[t][j]) => log[t][j].json = PyNone /\ log[t][j].at = 0
    /\ call["t1"].entries0 = <<>>
    /\ RunningIds(entries) = {1, 2}

\* C14: the PATCH of stop_timer names no entry: it ends the entry in
\* progress when it is issued. The call issuing it saw some entry E running;
\* the entry ended can be another one, E', which the start_timer of the
\* other thread created after that look.
C14_StopsWhateverRuns ==
    \A t \in Threads :
       \A i \in Wrote(t, "PATCH") :
          LET seen == log[t][LastLook(t, i)]
              ended == log[t][i].json
          IN  /\ DOMAIN log[t][i].body = {"type", "end"}
              /\ seen.json # PyNone
              /\ ended.id \in log[t][i].running
              /\ \A e \in log[t][i].running : e <= ended.id
              /\ ended.id # seen.json.id
                 => /\ ended.id > seen.at
                    /\ \E u \in Threads \ {t} :
                          /\ call[u].fn = "start_timer"
                          /\ \E k \in Wrote(u, "POST") :
                                log[u][k].json.id = ended.id

C14_Witness ==
    \E t \in Threads :
       /\ Done(t) /\ call[t].fn = "stop_timer"
       /\ outcome[t].status = "returned"
       /\ \E i \in Wrote(t, "PATCH") :
             /\ log[t][LastLook(t, i)].json # PyNone
             /\ log[t][LastLook(t, i)].json.id = 1
             /\ log[t][i].json.id = 2
             /\ log[t][LastLook(t, i)].at = 1

C14_StartStepWitness ==
    \E t \in Threads :
       /\ Done(t) /\ call[t].fn = "start_timer"
       /\ \E i \in Wrote(t, "PATCH") :
             /\ log[t][LastLook(t, i)].json # PyNone
             /\ log[t][i].json.id # log[t][LastLook(t, i)].json.id

====
